---- MODULE Spec2Model ----
(***************************************************************************)
(* Model of the todo page (src/src/app/todo/page.tsx): the React state of  *)
(* TodoPage, its event handlers, the continuation of every handler after   *)
(* its awaited remote call, and the remote document store the calls reach. *)
(*                                                                         *)
(* A handler runs synchronously up to its await: that part is one action.  *)
(* The remote store then serves the request (one action) and the handler's *)
(* try block continues (one more action), or the call rejects and the      *)
(* catch block runs (one action); finally runs with either.  What runs     *)
(* after the await reads the state its closure captured when the handler   *)
(* was invoked; the captured values it reads are kept in the request.      *)
(***************************************************************************)
EXTENDS Integers, Sequences, FiniteSets, Bags, TLC

\* ---------------------------------------------------------------- bounds
MaxInFlight == 2
MaxCalls == 4
ScenarioCalls == 5

\* ------------------------------------------------------------- constants
NoId == 0
NULL == "null"
UserId == "1"

VARIABLES
    todoText,    \* useState<string>('')                 (line 11)
    editingId,   \* useState<string | null>(null)        (line 13)
    editText,    \* useState<string>('')                 (line 14)
    todos,       \* useState<Todo[]>([])                 (line 17)
    loading,     \* useState<boolean>(false)             (line 20)
    error,       \* useState<string | null>(null)        (line 21)
    mounted,     \* whether the mount effect (line 28) has run
    store,       \* the remote collection, in creation order
    nextId,      \* the next id the store hands out
    inflight,    \* remote calls issued and not yet handled: a bag of requests
    calls,       \* history: the number of remote calls issued so far
    budget,      \* the number of remote calls a run of the model may issue;
                 \* 0: no limit, and the calls are not counted
    last,        \* history: the handler or continuation that ran last
    orig,        \* history: id -> completed flag when the entry entered todos
    flips        \* history: id -> 0 never toggled, 1 odd, 2 even (>= 2) successes

vars == <<todoText, editingId, editText, todos, loading, error, mounted,
          store, nextId, inflight, calls, budget, last, orig, flips>>

\* every id the store can hand out within MaxCalls calls, and the seed's
Ids == 1..(MaxCalls + 1)

\* ------------------------------------------------------------------ text
\* Strings are sequences of characters.  What the user types into the two
\* inputs: nothing, blanks only, and texts with leading or trailing blanks.
Texts == {<<>>, <<" ">>, <<" ", "a", " ">>}

RECURSIVE TrimStart(_)
TrimStart(s) ==
    IF s = <<>> THEN s
    ELSE IF Head(s) = " " THEN TrimStart(Tail(s)) ELSE s

RECURSIVE TrimEnd(_)
TrimEnd(s) ==
    IF s = <<>> THEN s
    ELSE IF s[Len(s)] = " " THEN TrimEnd(SubSeq(s, 1, Len(s) - 1)) ELSE s

\* a plausible slip: no trimming at all
TrimNothing(s) == s

\* String.prototype.trim
Trim(s) == TrimEnd(TrimStart(s))

\* ------------------------------------------------------------- documents
Doc(id, text, done) ==
    [id |-> id, todo |-> text, userId |-> UserId, completed |-> done]

\* Array.prototype.find on $id: the first match
RECURSIVE Find(_, _)
Find(list, id) ==
    IF list = <<>> THEN NULL
    ELSE IF Head(list).id = id THEN Head(list) ELSE Find(Tail(list), id)

HasId(list, id) == \E j \in DOMAIN list : list[j].id = id

RECURSIVE Filter(_, _)
Filter(list, id) ==
    IF list = <<>> THEN <<>>
    ELSE IF Head(list).id # id
         THEN <<Head(list)>> \o Filter(Tail(list), id)
         ELSE Filter(Tail(list), id)

\* -------------------------------------------------------- remote requests
Op(kind, id, text, done) ==
    [kind |-> kind, id |-> id, todo |-> text, completed |-> done,
     phase |-> "sent", resp |-> <<>>]

CanIssue ==
    /\ BagCardinality(inflight) < MaxInFlight
    /\ budget = 0 \/ calls < budget

\* one more remote call goes out
Issue(op) ==
    /\ inflight' = inflight (+) SetToBag({op})
    /\ calls' = IF budget = 0 THEN calls ELSE calls + 1

\* ------------------------------------------------------------------ init
\* the documents the collection may hold before the page is opened
SeedDoc == [id |-> 1, todo |-> <<"b">>, userId |-> "1", completed |-> TRUE]

InitStores == {<<>>, <<SeedDoc>>}

\* the state after construction, before the mount effect has run
Start(stores, limit) ==
    /\ todoText = <<>>
    /\ editingId = NoId
    /\ editText = <<>>
    /\ todos = <<>>
    /\ loading = FALSE
    /\ error = NULL
    /\ mounted = FALSE
    /\ store \in stores
    /\ nextId = Len(store) + 1
    /\ inflight = EmptyBag
    /\ calls = 0
    /\ budget = limit
    /\ last = "init"
    /\ orig = [id \in Ids |-> FALSE]
    /\ flips = [id \in Ids |-> 0]

Init == Start(InitStores, MaxCalls)

\* ------------------------------------------------------- what is rendered
\* the form's input and button: disabled={loading}           (lines 265, 269)
FormEnabled == mounted /\ ~loading

\* a row's checkbox, Delete and Update: disabled={loading}   (lines 297-350)
RowEnabled(id) == mounted /\ ~loading /\ HasId(todos, id)

\* the edit input, Save and Cancel of the row being edited; none of them is
\* disabled while loading                                     (lines 303-327)
EditRowShown(id) == mounted /\ id # NoId /\ editingId = id /\ HasId(todos, id)

\* ------------------------------------------------------- state updaters
\* setTodos((prevTodos) => [...prevTodos, response])               (line 84)
PrependTodo(prevTodos, response) == <<response>> \o prevTodos

AppendTodo(prevTodos, response) == prevTodos \o <<response>>

\* setTodos(prev => prev.map(todo => todo.$id === id
\*            ? { ...todo, completed: !todo.completed } : todo))  (line 128)
SetCompleted(prevTodos, id) ==
    [j \in DOMAIN prevTodos |->
        IF prevTodos[j].id = id
        THEN [prevTodos[j] EXCEPT !.completed = TRUE]
        ELSE prevTodos[j]]

\* a plausible slip: the map without its test of the id
ToggleEvery(prevTodos, id) ==
    [j \in DOMAIN prevTodos |->
        [prevTodos[j] EXCEPT !.completed = ~prevTodos[j].completed]]

ToggleCompleted(prevTodos, id) ==
    [j \in DOMAIN prevTodos |->
        IF prevTodos[j].id = id
        THEN [prevTodos[j] EXCEPT !.completed = ~prevTodos[j].completed]
        ELSE prevTodos[j]]

\* setTodos(prev => prev.filter(todo => todo.$id !== id))         (line 151)
RECURSIVE KeepOnly(_, _)
KeepOnly(prevTodos, id) ==
    IF prevTodos = <<>> THEN <<>>
    ELSE IF Head(prevTodos).id = id
         THEN <<Head(prevTodos)>> \o KeepOnly(Tail(prevTodos), id)
         ELSE KeepOnly(Tail(prevTodos), id)

RemoveTodo(prevTodos, id) == Filter(prevTodos, id)

\* setTodos(prev => prev.map(todo => todo.$id === id
\*            ? { ...todo, todo: editText.trim() } : todo))   (lines 200-204)
ReplaceTodo(prevTodos, id, text) ==
    [j \in DOMAIN prevTodos |->
        IF prevTodos[j].id = id THEN Doc(id, text, FALSE) ELSE prevTodos[j]]

MergeText(prevTodos, id, text) ==
    [j \in DOMAIN prevTodos |->
        IF prevTodos[j].id = id
        THEN [prevTodos[j] EXCEPT !.todo = text]
        ELSE prevTodos[j]]

\* setLoading(true); setError(null)
StartLoading == loading' = TRUE /\ error' = NULL

\* finally { setLoading(false) }
FinallyKeepsLoading == loading' = loading

Finally == loading' = FALSE

\* ------------------------------------------------------------- handlers
\* a plausible slip: the effect without its [] dependency list runs after
\* every render
FetchTodosEveryRender ==
    /\ CanIssue
    /\ mounted' = TRUE
    /\ StartLoading
    /\ Issue(Op("list", NoId, <<>>, FALSE))
    /\ last' = "fetchTodos"
    /\ UNCHANGED <<todoText, editingId, editText, todos, store, nextId, orig,
                   flips, budget>>

\* useEffect(() => { fetchTodos() }, []): runs once, after the first render
FetchTodos ==
    /\ ~mounted
    /\ mounted' = TRUE
    /\ StartLoading
    /\ Issue(Op("list", NoId, <<>>, FALSE))
    /\ last' = "fetchTodos"
    /\ UNCHANGED <<todoText, editingId, editText, todos, store, nextId, orig,
                   flips, budget>>

\* handleInputChange: setTodoText(e.target.value)
HandleInputChange(value) ==
    /\ FormEnabled
    /\ todoText' = value
    /\ last' = "handleInputChange"
    /\ UNCHANGED <<editingId, editText, todos, loading, error, mounted, store,
                   nextId, inflight, calls, orig, flips, budget>>

\* handleSubmit up to its await
HandleSubmit ==
    /\ FormEnabled
    /\ last' = "handleSubmit"
    /\ IF Trim(todoText) = <<>>
       THEN UNCHANGED <<loading, error, inflight, calls>>
       ELSE /\ CanIssue
            /\ StartLoading
            /\ Issue(Op("create", NoId, Trim(todoText), FALSE))
    /\ UNCHANGED <<todoText, editingId, editText, todos, mounted, store,
                   nextId, orig, flips, budget>>

\* a plausible slip: the result of find is not tested, the flag is set
ToggleTodoNoFind(id) ==
    /\ CanIssue
    /\ Issue(Op("toggle", id, <<>>, TRUE))
    /\ StartLoading
    /\ last' = "toggleTodo"
    /\ UNCHANGED <<todoText, editingId, editText, todos, mounted, store,
                   nextId, orig, flips, budget>>

\* toggleTodo(id) up to its await: find the entry, return when there is
\* none, else send the inverted flag                       (lines 108-124)
ToggleTodoInvoked(id) ==
    /\ last' = "toggleTodo"
    /\ IF ~HasId(todos, id)
       THEN UNCHANGED <<loading, error, inflight, calls>>
       ELSE /\ CanIssue
            /\ LET todoToUpdate == Find(todos, id) IN
                 Issue(Op("toggle", id, <<>>, ~todoToUpdate.completed))
            /\ StartLoading
    /\ UNCHANGED <<todoText, editingId, editText, todos, mounted, store,
                   nextId, orig, flips, budget>>

\* a row's checkbox: onChange={() => toggleTodo(todo.$id)}
ToggleTodo(id) ==
    /\ RowEnabled(id)
    /\ ToggleTodoInvoked(id)

\* deleteTodo up to its await
DeleteTodo(id) ==
    /\ RowEnabled(id)
    /\ CanIssue
    /\ Issue(Op("delete", id, <<>>, FALSE))
    /\ StartLoading
    /\ last' = "deleteTodo"
    /\ UNCHANGED <<todoText, editingId, editText, todos, mounted, store,
                   nextId, orig, flips, budget>>

\* a plausible slip: an edit already begun is kept
UpdateToDoKeepsEdit(id) ==
    /\ RowEnabled(id)
    /\ LET todoToEdit == Find(todos, id) IN
         IF HasId(todos, editingId)
         THEN UNCHANGED <<editingId, editText>>
         ELSE /\ editingId' = id
              /\ editText' = todoToEdit.todo
    /\ last' = "updateToDo"
    /\ UNCHANGED <<todoText, todos, loading, error, mounted, store, nextId,
                   inflight, calls, orig, flips, budget>>

\* updateToDo: begin editing
UpdateToDo(id) ==
    /\ RowEnabled(id)
    /\ LET todoToEdit == Find(todos, id) IN
         /\ editingId' = id
         /\ editText' = todoToEdit.todo
    /\ last' = "updateToDo"
    /\ UNCHANGED <<todoText, todos, loading, error, mounted, store, nextId,
                   inflight, calls, orig, flips, budget>>

\* handleUpdateText: setEditText(e.target.value)
HandleUpdateText(value) ==
    /\ EditRowShown(editingId)
    /\ editText' = value
    /\ last' = "handleUpdateText"
    /\ UNCHANGED <<todoText, editingId, todos, loading, error, mounted, store,
                   nextId, inflight, calls, orig, flips, budget>>

\* a plausible slip: the draft is sent without the test for a blank draft
SaveUpdateAnyDraft(id) ==
    /\ EditRowShown(id)
    /\ last' = "saveUpdate"
    /\ CanIssue
    /\ StartLoading
    /\ Issue(Op("save", id, Trim(editText), FALSE))
    /\ UNCHANGED <<todoText, editingId, editText, todos, mounted, store,
                   nextId, orig, flips, budget>>

\* saveUpdate up to its await (Save button, or Enter in the edit input)
SaveUpdate(id) ==
    /\ EditRowShown(id)
    /\ last' = "saveUpdate"
    /\ IF Trim(editText) = <<>>
       THEN UNCHANGED <<loading, error, inflight, calls>>
       ELSE /\ CanIssue
            /\ StartLoading
            /\ Issue(Op("save", id, Trim(editText), FALSE))
    /\ UNCHANGED <<todoText, editingId, editText, todos, mounted, store,
                   nextId, orig, flips, budget>>

\* a plausible slip: the draft is left behind
CancelKeepsDraft ==
    /\ EditRowShown(editingId)
    /\ editingId' = NoId
    /\ last' = "cancelUpdate"
    /\ UNCHANGED <<todoText, editText, todos, loading, error, mounted, store,
                   nextId, inflight, calls, orig, flips, budget>>

\* cancelUpdate (Cancel button, or Escape in the edit input)
CancelUpdate ==
    /\ EditRowShown(editingId)
    /\ editingId' = NoId
    /\ editText' = <<>>
    /\ last' = "cancelUpdate"
    /\ UNCHANGED <<todoText, todos, loading, error, mounted, store, nextId,
                   inflight, calls, orig, flips, budget>>

\* ------------------------------------------------------ the remote store
Sent(op, kinds) ==
    /\ BagIn(op, inflight)
    /\ op.kind \in kinds
    /\ op.phase = "sent"

Answer(op, phase, id, resp) ==
    /\ inflight' = (inflight (-) SetToBag({op})) (+)
                   SetToBag({[op EXCEPT !.phase = phase, !.id = id,
                                        !.resp = resp]})
    /\ calls' = calls

\* databases.listDocuments(DATABASE_ID, COLLECTION_ID)
ListDocuments(op) ==
    /\ Sent(op, {"list"})
    /\ Answer(op, "ok", NoId, store)
    /\ last' = "listDocuments"
    /\ UNCHANGED <<todoText, editingId, editText, todos, loading, error,
                   mounted, store, nextId, orig, flips, budget>>

\* databases.createDocument(DATABASE_ID, COLLECTION_ID, ID.unique(), data)
CreateDocument(op) ==
    /\ Sent(op, {"create"})
    /\ LET doc == Doc(nextId, op.todo, op.completed) IN
         /\ store' = Append(store, doc)
         /\ Answer(op, "ok", nextId, <<doc>>)
    /\ nextId' = nextId + 1
    /\ last' = "createDocument"
    /\ UNCHANGED <<todoText, editingId, editText, todos, loading, error,
                   mounted, orig, flips, budget>>

\* databases.updateDocument(DATABASE_ID, COLLECTION_ID, id, data): a partial
\* update of the document; on a missing document the call can only reject
UpdateDocument(op) ==
    /\ Sent(op, {"toggle", "save"})
    /\ HasId(store, op.id)
    /\ store' = [j \in DOMAIN store |->
                    IF store[j].id # op.id THEN store[j]
                    ELSE IF op.kind = "toggle"
                         THEN [store[j] EXCEPT !.completed = op.completed]
                         ELSE [store[j] EXCEPT !.todo = op.todo]]
    /\ Answer(op, "ok", op.id, <<>>)
    /\ last' = "updateDocument"
    /\ UNCHANGED <<todoText, editingId, editText, todos, loading, error,
                   mounted, nextId, orig, flips, budget>>

\* databases.deleteDocument(DATABASE_ID, COLLECTION_ID, id); on a missing
\* document the call can only reject
DeleteDocument(op) ==
    /\ Sent(op, {"delete"})
    /\ HasId(store, op.id)
    /\ store' = Filter(store, op.id)
    /\ Answer(op, "ok", op.id, <<>>)
    /\ last' = "deleteDocument"
    /\ UNCHANGED <<todoText, editingId, editText, todos, loading, error,
                   mounted, nextId, orig, flips, budget>>

\* ------------------------------------------- continuations after the await
\* the await resolves with the store's response: the try block continues
Resolves(op, kind) ==
    /\ BagIn(op, inflight)
    /\ op.kind = kind
    /\ op.phase = "ok"

\* the await rejects (network, server, missing document): the store has not
\* applied the request; the catch block runs
Rejects(op, kind) ==
    /\ BagIn(op, inflight)
    /\ op.kind = kind
    /\ op.phase = "sent"

\* the call is no longer in flight
Handled(op) == inflight' = inflight (-) SetToBag({op}) /\ calls' = calls

\* fetchTodos: setTodos(response.documents)                  (lines 39-47)
FetchTodosOk(op) ==
    /\ Resolves(op, "list")
    /\ todos' = op.resp
    /\ Finally
    /\ Handled(op)
    /\ last' = "fetchTodos.ok"
    /\ orig' = [id \in Ids |->
                  IF HasId(op.resp, id)
                  THEN Find(op.resp, id).completed ELSE orig[id]]
    /\ UNCHANGED <<todoText, editingId, editText, error, mounted, store,
                   nextId, flips, budget>>

\* fetchTodos: catch, finally                                (lines 43-48)
FetchTodosErr(op) ==
    /\ Rejects(op, "list")
    /\ error' = "Failed to fetch todos"
    /\ Finally
    /\ Handled(op)
    /\ last' = "fetchTodos.err"
    /\ UNCHANGED <<todoText, editingId, editText, todos, mounted, store,
                   nextId, orig, flips, budget>>

\* handleSubmit: append the response, clear the input        (lines 84-92)
HandleSubmitOk(op) ==
    /\ Resolves(op, "create")
    /\ todos' = AppendTodo(todos, op.resp[1])
    /\ todoText' = <<>>
    /\ Finally
    /\ Handled(op)
    /\ last' = "handleSubmit.ok"
    /\ orig' = [orig EXCEPT ![op.id] = op.resp[1].completed]
    /\ UNCHANGED <<editingId, editText, error, mounted, store, nextId, flips,
                   budget>>

\* a plausible slip: the catch block sends the request again
HandleSubmitErrRetries(op) ==
    /\ Rejects(op, "create")
    /\ calls < budget
    /\ error' = "Failed to create todo"
    /\ Finally
    /\ inflight' = inflight
    /\ calls' = calls + 1
    /\ last' = "handleSubmit.err"
    /\ UNCHANGED <<todoText, editingId, editText, todos, mounted, store,
                   nextId, orig, flips, budget>>

\* handleSubmit: catch, finally                              (lines 88-93)
HandleSubmitErr(op) ==
    /\ Rejects(op, "create")
    /\ error' = "Failed to create todo"
    /\ Finally
    /\ Handled(op)
    /\ last' = "handleSubmit.err"
    /\ UNCHANGED <<todoText, editingId, editText, todos, mounted, store,
                   nextId, orig, flips, budget>>

\* toggleTodo: flip the local copy                         (lines 126-135)
ToggleTodoOk(op) ==
    /\ Resolves(op, "toggle")
    /\ todos' = ToggleCompleted(todos, op.id)
    /\ Finally
    /\ Handled(op)
    /\ last' = "toggleTodo.ok"
    /\ flips' = [flips EXCEPT ![op.id] =
                   IF ~HasId(todos, op.id) THEN @
                   ELSE IF @ = 2 THEN 1 ELSE @ + 1]
    /\ UNCHANGED <<todoText, editingId, editText, error, mounted, store,
                   nextId, orig, budget>>

\* toggleTodo: catch, finally                              (lines 131-136)
ToggleTodoErr(op) ==
    /\ Rejects(op, "toggle")
    /\ error' = "Failed to update todo"
    /\ Finally
    /\ Handled(op)
    /\ last' = "toggleTodo.err"
    /\ UNCHANGED <<todoText, editingId, editText, todos, mounted, store,
                   nextId, orig, flips, budget>>

\* deleteTodo: remove the local copy                       (lines 150-157)
DeleteTodoOk(op) ==
    /\ Resolves(op, "delete")
    /\ todos' = RemoveTodo(todos, op.id)
    /\ Finally
    /\ Handled(op)
    /\ last' = "deleteTodo.ok"
    /\ UNCHANGED <<todoText, editingId, editText, error, mounted, store,
                   nextId, orig, flips, budget>>

\* a plausible slip: the local removal placed outside the try block
DeleteTodoErrRemoves(op) ==
    /\ Rejects(op, "delete")
    /\ todos' = RemoveTodo(todos, op.id)
    /\ error' = "Failed to delete todo"
    /\ Finally
    /\ Handled(op)
    /\ last' = "deleteTodo.err"
    /\ UNCHANGED <<todoText, editingId, editText, mounted, store, nextId,
                   orig, flips, budget>>

\* deleteTodo: catch, finally                              (lines 153-158)
DeleteTodoErr(op) ==
    /\ Rejects(op, "delete")
    /\ error' = "Failed to delete todo"
    /\ Finally
    /\ Handled(op)
    /\ last' = "deleteTodo.err"
    /\ UNCHANGED <<todoText, editingId, editText, todos, mounted, store,
                   nextId, orig, flips, budget>>

\* a plausible slip: the merge reads the draft as it is when the call returns
SaveUpdateOkReadsState(op) ==
    /\ Resolves(op, "save")
    /\ todos' = MergeText(todos, op.id, Trim(editText))
    /\ editingId' = NoId
    /\ editText' = <<>>
    /\ Finally
    /\ Handled(op)
    /\ last' = "saveUpdate.ok"
    /\ UNCHANGED <<todoText, error, mounted, store, nextId, orig, flips,
                   budget>>

\* saveUpdate: merge the captured draft, leave edit mode   (lines 199-215)
SaveUpdateOk(op) ==
    /\ Resolves(op, "save")
    /\ todos' = MergeText(todos, op.id, op.todo)
    /\ editingId' = NoId
    /\ editText' = <<>>
    /\ Finally
    /\ Handled(op)
    /\ last' = "saveUpdate.ok"
    /\ UNCHANGED <<todoText, error, mounted, store, nextId, orig, flips,
                   budget>>

\* saveUpdate: catch, finally                              (lines 211-216)
SaveUpdateErr(op) ==
    /\ Rejects(op, "save")
    /\ error' = "Failed to update todo text"
    /\ Finally
    /\ Handled(op)
    /\ last' = "saveUpdate.err"
    /\ UNCHANGED <<todoText, editingId, editText, todos, mounted, store,
                   nextId, orig, flips, budget>>

\* ----------------------------------------------------------------- spec
InFlight == BagToSet(inflight)

Next ==
    \/ FetchTodos
    \/ \E value \in Texts : HandleInputChange(value)
    \/ HandleSubmit
    \/ \E id \in Ids : ToggleTodo(id)
    \/ \E id \in Ids : DeleteTodo(id)
    \/ \E id \in Ids : UpdateToDo(id)
    \/ \E value \in Texts : HandleUpdateText(value)
    \/ \E id \in Ids : SaveUpdate(id)
    \/ CancelUpdate
    \/ \E op \in InFlight : ListDocuments(op)
    \/ \E op \in InFlight : CreateDocument(op)
    \/ \E op \in InFlight : UpdateDocument(op)
    \/ \E op \in InFlight : DeleteDocument(op)
    \/ \E op \in InFlight : FetchTodosOk(op)
    \/ \E op \in InFlight : FetchTodosErr(op)
    \/ \E op \in InFlight : HandleSubmitOk(op)
    \/ \E op \in InFlight : HandleSubmitErr(op)
    \/ \E op \in InFlight : ToggleTodoOk(op)
    \/ \E op \in InFlight : ToggleTodoErr(op)
    \/ \E op \in InFlight : DeleteTodoOk(op)
    \/ \E op \in InFlight : DeleteTodoErr(op)
    \/ \E op \in InFlight : SaveUpdateOk(op)
    \/ \E op \in InFlight : SaveUpdateErr(op)

Spec == Init /\ [][Next]_vars

\* ------------------------------------------------------------- scenario
\* The page driven through create, toggle, edit and save, delete, in that
\* order, from an empty collection: the user acts only while no call is in
\* flight, and every call is served and resolves.
BuyMilk == <<"B", "u", "y", " ", "m", "i", "l", "k">>

BuyOatMilk == <<"B", "u", "y", " ", "o", "a", "t", " ", "m", "i", "l", "k">>

\* what the user types in the scenario, with and without blanks around it
ScenarioTexts ==
    {<<>>, <<" ">>, BuyMilk, <<" ">> \o BuyMilk \o <<" ">>,
     BuyOatMilk, BuyOatMilk \o <<" ">>}

NoCallInFlight == BagCardinality(inflight) = 0

ScenarioInit == Start({<<>>}, ScenarioCalls)

ScenarioNext ==
    \/ FetchTodos
    \/ /\ NoCallInFlight
       /\ \E value \in ScenarioTexts : HandleInputChange(value)
    \/ /\ NoCallInFlight
       /\ Trim(todoText) = <<>> \/ (Trim(todoText) = BuyMilk /\ calls = 1)
       /\ HandleSubmit
    \/ /\ NoCallInFlight
       /\ calls = 2
       /\ \E id \in Ids : ToggleTodo(id)
    \/ /\ NoCallInFlight
       /\ \E id \in Ids : UpdateToDo(id)
    \/ /\ NoCallInFlight
       /\ \E value \in ScenarioTexts : HandleUpdateText(value)
    \/ /\ NoCallInFlight
       /\ Trim(editText) = <<>> \/ (Trim(editText) = BuyOatMilk /\ calls = 3)
       /\ \E id \in Ids : SaveUpdate(id)
    \/ /\ NoCallInFlight
       /\ CancelUpdate
    \/ /\ NoCallInFlight
       /\ calls = 4
       /\ \E id \in Ids : DeleteTodo(id)
    \/ \E op \in InFlight : ListDocuments(op)
    \/ \E op \in InFlight : CreateDocument(op)
    \/ \E op \in InFlight : UpdateDocument(op)
    \/ \E op \in InFlight : DeleteDocument(op)
    \/ \E op \in InFlight : FetchTodosOk(op)
    \/ \E op \in InFlight : HandleSubmitOk(op)
    \/ \E op \in InFlight : ToggleTodoOk(op)
    \/ \E op \in InFlight : SaveUpdateOk(op)
    \/ \E op \in InFlight : DeleteTodoOk(op)

ScenarioSpec == ScenarioInit /\ [][ScenarioNext]_vars

\* ------------------------------------------------------- every call responds
\* The page over a collection of one document, with no limit on the number
\* of calls; nothing is created, so the run stays within finitely many
\* states.  Every call that is in flight eventually responds: it is served
\* or it rejects, and the handler's continuation runs.
Requests ==
    {[kind |-> k, id |-> i, todo |-> t, completed |-> c, phase |-> p,
      resp |-> r] :
        k \in {"list", "toggle", "delete", "save"}, i \in {NoId, SeedDoc.id},
        t \in {<<>>} \cup {Trim(x) : x \in Texts} \cup {SeedDoc.todo},
        c \in BOOLEAN, p \in {"sent", "ok"}, r \in {<<>>, <<SeedDoc>>}}

Responds(op) ==
    \/ ListDocuments(op)
    \/ UpdateDocument(op)
    \/ DeleteDocument(op)
    \/ FetchTodosOk(op)
    \/ FetchTodosErr(op)
    \/ ToggleTodoOk(op)
    \/ ToggleTodoErr(op)
    \/ DeleteTodoOk(op)
    \/ DeleteTodoErr(op)
    \/ SaveUpdateOk(op)
    \/ SaveUpdateErr(op)

LiveInit == Start({<<SeedDoc>>}, 0)

LiveNext ==
    \/ FetchTodos
    \/ \E id \in Ids : ToggleTodo(id)
    \/ \E id \in Ids : DeleteTodo(id)
    \/ \E id \in Ids : UpdateToDo(id)
    \/ \E value \in Texts : HandleUpdateText(value)
    \/ \E id \in Ids : SaveUpdate(id)
    \/ CancelUpdate
    \/ \E op \in InFlight : Responds(op)

\* ------------------------------------------------- the handler called directly
\* The page as above, and toggleTodo called as a function with an id that
\* no rendered row carries.
HandlerNext ==
    \/ Next
    \/ \E id \in Ids : mounted /\ ~HasId(todos, id) /\ ToggleTodoInvoked(id)

HandlerSpec == Init /\ [][HandlerNext]_vars

LiveSpec ==
    /\ LiveInit
    /\ [][LiveNext]_vars
    /\ WF_vars(FetchTodos)
    /\ \A op \in Requests : WF_vars(Responds(op))

\* ================================================================ claims
IsBlank(s) == \A k \in DOMAIN s : s[k] = " "

\* t is s without its leading and trailing blanks
IsTrimOf(t, s) ==
    \E lo, hi \in 0..Len(s) :
        /\ lo <= hi \/ t = <<>>
        /\ t = SubSeq(s, lo + 1, hi)
        /\ \A k \in 1..lo : s[k] = " "
        /\ \A k \in (hi + 1)..Len(s) : s[k] = " "
        /\ t # <<>> => t[1] # " " /\ t[Len(t)] # " "

\* the continuation labelled label handles the call op in this step
Handles(op, label) ==
    /\ BagIn(op, inflight)
    /\ last' = label
    /\ inflight' = inflight (-) SetToBag({op})

\* this step issues a remote call: the request just issued
Issued ==
    CHOOSE op \in BagToSet(inflight') :
        CopiesIn(op, inflight') > CopiesIn(op, inflight)

\* C1: a create with non-blank text sends the trimmed text; when the call
\* succeeds exactly one entry is appended at the end of todos, with the
\* store-assigned id, the sent text, userId "1" and completed = false; the
\* same document is in the store, and the input is cleared.
CreateAppendsAtEnd ==
    [][/\ (last' = "handleSubmit" /\ calls' # calls) =>
            /\ Issued.kind = "create"
            /\ Issued.todo # <<>>
            /\ IsTrimOf(Issued.todo, todoText)
       /\ \A op \in BagToSet(inflight) :
            (Handles(op, "handleSubmit.ok") /\ op.kind = "create") =>
                /\ Len(todos') = Len(todos) + 1
                /\ SubSeq(todos', 1, Len(todos)) = todos
                /\ todos'[Len(todos')] =
                       [id |-> op.id, todo |-> op.todo,
                        userId |-> "1", completed |-> FALSE]
                /\ op.id # NoId
                /\ ~HasId(todos, op.id)
                /\ \E j \in DOMAIN store' : store'[j] = todos'[Len(todos')]
                /\ todoText' = <<>>]_vars

CreateAppendsAtEndReached ==
    /\ last = "handleSubmit.ok"
    /\ Len(todos) = 2
    /\ todos[1] = SeedDoc
    /\ todos[2].todo = <<"a">>
    /\ todoText = <<>>

\* C2: submitting an empty or blank-only input issues no remote call and
\* leaves todos, loading, error and the input text unchanged.
BlankSubmitIsSilent ==
    [][(last' = "handleSubmit" /\ IsBlank(todoText)) =>
          UNCHANGED <<todos, loading, error, todoText, inflight, calls,
                      store>>]_vars

BlankSubmitIsSilentReached ==
    /\ last = "handleSubmit"
    /\ todoText = <<" ">>
    /\ error = "Failed to fetch todos"
    /\ BagCardinality(inflight) = 0
    /\ calls = 1

\* C3: an entry whose toggle has succeeded an even number of times (twice)
\* holds the completed flag it had when it entered todos.
ToggleTwiceRestores ==
    \A j \in DOMAIN todos :
        flips[todos[j].id] = 2 => todos[j].completed = orig[todos[j].id]

ToggleTwiceRestoresReached ==
    /\ last = "toggleTodo.ok"
    /\ BagCardinality(inflight) > 0
    /\ \E j \in DOMAIN todos : flips[todos[j].id] = 2

\* C4: when a toggle succeeds, the completed value it wrote to the remote
\* document is the value the in-memory copy holds after the success step.
ToggleSameFlip ==
    [][\A op \in BagToSet(inflight) :
          (Handles(op, "toggleTodo.ok") /\ op.kind = "toggle") =>
              \A j \in DOMAIN todos' :
                  todos'[j].id = op.id =>
                      todos'[j].completed = op.completed]_vars

\* C5: a delete that succeeds removes the entry with that id from todos
\* (the others stay, in order) and the document is not in the store; a
\* delete that fails sets its error message and leaves todos unchanged.
DeleteRemoves ==
    [][\A op \in BagToSet(inflight) :
          /\ (Handles(op, "deleteTodo.ok") /\ op.kind = "delete") =>
                /\ ~HasId(todos', op.id)
                /\ ~HasId(store', op.id)
                /\ \A j \in DOMAIN todos :
                      todos[j].id # op.id =>
                          \E k \in DOMAIN todos' : todos'[k] = todos[j]
                /\ Len(todos') =
                      Cardinality({j \in DOMAIN todos :
                                     todos[j].id # op.id})
          /\ (Handles(op, "deleteTodo.err") /\ op.kind = "delete") =>
                /\ error' = "Failed to delete todo"
                /\ todos' = todos]_vars

DeleteRemovesReached ==
    /\ last = "deleteTodo.ok"
    /\ Len(todos) = 1
    /\ todos[1].id = 2
    /\ ~HasId(store, 1)

\* C6: begin-edit, draft changes and cancel issue no remote call and change
\* neither todos nor the store; after cancel no entry is being edited and
\* the draft is empty.
EditThenCancelChangesNothing ==
    [][/\ last' \in {"updateToDo", "handleUpdateText", "cancelUpdate"} =>
            UNCHANGED <<todos, store, inflight, calls>>
       /\ last' = "cancelUpdate" => editingId' = NoId /\ editText' = <<>>]_vars

EditThenCancelChangesNothingReached ==
    /\ last = "cancelUpdate"
    /\ editingId = NoId
    /\ editText = <<>>
    /\ todos = <<SeedDoc>>
    /\ store = <<SeedDoc>>
    /\ calls = 1

\* C7: a save with a non-blank draft sends the trimmed draft; when the call
\* succeeds the entry with that id gets the sent text, keeps its id and
\* completed flag, and edit mode is cleared.
SaveMergesText ==
    [][/\ (last' = "saveUpdate" /\ calls' # calls) =>
            /\ Issued.kind = "save"
            /\ Issued.id = editingId
            /\ Issued.todo # <<>>
            /\ IsTrimOf(Issued.todo, editText)
       /\ \A op \in BagToSet(inflight) :
            (Handles(op, "saveUpdate.ok") /\ op.kind = "save") =>
                /\ Len(todos') = Len(todos)
                /\ \A j \in DOMAIN todos :
                      IF todos[j].id = op.id
                      THEN todos'[j] = [id |-> todos[j].id,
                                        todo |-> op.todo,
                                        userId |-> todos[j].userId,
                                        completed |-> todos[j].completed]
                      ELSE todos'[j] = todos[j]
                /\ editingId' = NoId
                /\ editText' = <<>>]_vars

SaveMergesTextReached ==
    /\ last = "saveUpdate.ok"
    /\ todos = <<[SeedDoc EXCEPT !.todo = <<"a">>]>>
    /\ editingId = NoId
    /\ editText = <<>>

\* C8: the failure step of create, toggle, save, delete and list-load
\* leaves todos exactly as it was.
FailureLabels ==
    {"fetchTodos.err", "handleSubmit.err", "toggleTodo.err",
     "deleteTodo.err", "saveUpdate.err"}

FailureKeepsTodos ==
    [][last' \in FailureLabels => todos' = todos]_vars

FailureKeepsTodosReached ==
    /\ last = "deleteTodo.err"
    /\ todos # <<>>
    /\ HasId(store, todos[1].id)

\* C9: right after the failure step of an operation the error message is
\* that operation's message and loading is false.
FailureMessage ==
    [l \in FailureLabels |->
        CASE l = "fetchTodos.err" -> "Failed to fetch todos"
          [] l = "handleSubmit.err" -> "Failed to create todo"
          [] l = "toggleTodo.err" -> "Failed to update todo"
          [] l = "deleteTodo.err" -> "Failed to delete todo"
          [] l = "saveUpdate.err" -> "Failed to update todo text"]

FailureSetsErrorAndIdle ==
    last \in FailureLabels => error = FailureMessage[last] /\ ~loading

FailureSetsErrorAndIdleReached ==
    /\ last = "toggleTodo.err"
    /\ error = "Failed to update todo"
    /\ ~loading
    /\ BagCardinality(inflight) > 0

\* C10: the list-load's success step sets todos to exactly the documents the
\* store returned; its failure step leaves todos empty and sets the error;
\* a list call is issued only by the mount effect, which runs once.
FetchReplacesOnce ==
    [][/\ \A op \in BagToSet(inflight) :
            (Handles(op, "fetchTodos.ok") /\ op.kind = "list") =>
                todos' = op.resp /\ todos' = store
       /\ last' = "fetchTodos.err" =>
            todos' = <<>> /\ error' = "Failed to fetch todos"
       /\ \A op \in BagToSet(inflight') :
            ( /\ op.kind = "list"
              /\ op.phase = "sent"
              /\ CopiesIn(op, inflight') > CopiesIn(op, inflight) ) =>
                ~mounted /\ calls = 0
       /\ mounted => mounted']_vars

FetchReplacesOnceReached ==
    /\ last = "fetchTodos.ok"
    /\ todos = <<SeedDoc>>
    /\ ~loading
    /\ calls = 1

\* C11: at most one remote call is in flight at any time.
AtMostOneInFlight == BagCardinality(inflight) <= 1

\* C12: whenever a remote call is in flight, loading is true.
InFlightImpliesLoading == BagCardinality(inflight) > 0 => loading

\* C13: whenever no call is in flight, every entry of todos is a document of
\* the store, with the same text and completed flag.
MemoryMirrorsStore ==
    BagCardinality(inflight) = 0 =>
        \A j \in DOMAIN todos :
            \E k \in DOMAIN store :
                /\ store[k].id = todos[j].id
                /\ store[k].todo = todos[j].todo
                /\ store[k].completed = todos[j].completed

\* C14: while a call that was issued stays unanswered, loading stays true.
HungCallKeepsLoading ==
    [][\A op \in BagToSet(inflight) :
          (op.phase = "sent" /\ BagIn(op, inflight') /\ loading) =>
              loading']_vars

\* C15: from an empty store with every call succeeding, once each step of
\* the scenario has settled: after the create, todos is exactly one entry
\* with text "Buy milk" and completed = false; after the toggle it is
\* completed; after the save its text is "Buy oat milk" and it is still
\* completed; after the delete todos is empty; and the store holds exactly
\* the entries of todos after each step.
ScenarioHolds ==
    (mounted /\ BagCardinality(inflight) = 0) =>
        /\ store = todos
        /\ calls \in 1..5
        /\ calls \in {1, 5} => todos = <<>>
        /\ calls \in {2, 3, 4} =>
              /\ Len(todos) = 1
              /\ todos[1].todo = (IF calls = 4 THEN BuyOatMilk ELSE BuyMilk)
              /\ todos[1].completed = (calls # 2)

ScenarioHoldsReached ==
    /\ last = "deleteTodo.ok"
    /\ calls = 5
    /\ todos = <<>>
    /\ store = <<>>
    /\ BagCardinality(inflight) = 0

\* C16: when every call that is issued eventually responds, a state with
\* loading set is eventually followed by a state with no call in flight and
\* loading false.
LoadingLeadsToIdle ==
    loading ~> (BagCardinality(inflight) = 0 /\ ~loading)

\* C17: toggleTodo called with an id that is not in todos issues no remote
\* call and leaves todos, loading, error, the edit id and the draft (and
\* the store) unchanged; a toggle call is issued only for an id in todos.
ToggleAbsentIsNoOp ==
    [][last' = "toggleTodo" =>
          IF inflight' = inflight
          THEN UNCHANGED <<todos, loading, error, editingId, editText,
                           calls, store>>
          ELSE HasId(todos, Issued.id)]_vars

ToggleAbsentIsNoOpReached ==
    /\ last = "toggleTodo"
    /\ BagCardinality(inflight) = 0
    /\ ~loading
    /\ error = "Failed to update todo"
    /\ todos = <<SeedDoc>>
    /\ editingId = 1

\* C18: saveUpdate with an empty or blank-only draft issues no remote call
\* and leaves todos, loading, error, the edit id and the draft unchanged.
BlankSaveIsSilent ==
    [][(last' = "saveUpdate" /\ IsBlank(editText)) =>
          UNCHANGED <<todos, loading, error, editingId, editText, inflight,
                      calls, store>>]_vars

BlankSaveIsSilentReached ==
    /\ last = "saveUpdate"
    /\ editText = <<" ">>
    /\ editingId = 1
    /\ todos = <<SeedDoc>>
    /\ BagCardinality(inflight) = 0
    /\ ~loading

\* C19: at most one entry of todos is in edit mode; a begin-edit step sets
\* the edit id to the clicked entry, which is in todos, and the draft to
\* that entry's text, whatever was being edited before, and issues no
\* call and changes neither todos, the store, loading nor error.
OneEditAtATime ==
    /\ [](Cardinality({j \in DOMAIN todos : todos[j].id = editingId}) <= 1)
    /\ [][last' = "updateToDo" =>
            /\ HasId(todos, editingId')
            /\ editText' = Find(todos, editingId').todo
            /\ UNCHANGED <<todos, store, inflight, calls, loading,
                           error>>]_vars

OneEditAtATimeReached ==
    /\ last = "updateToDo"
    /\ Len(todos) = 2
    /\ editingId = todos[2].id
    /\ editText = todos[2].todo
    /\ editText # todos[1].todo

\* C20: when a create fails, the input still holds the text that was
\* submitted (its trimmed form is the text sent), and todos is unchanged.
FailedCreateKeepsInput ==
    [][\A op \in BagToSet(inflight) :
          (Handles(op, "handleSubmit.err") /\ op.kind = "create") =>
              /\ Trim(todoText') = op.todo
              /\ todos' = todos]_vars

\* C21: a create with non-blank text, a toggle (by the checkbox of an entry
\* of todos), a save with a non-blank draft, a delete and the mount effect
\* each issue exactly one remote call;
\* a blank create or save, begin-edit, cancel and a change of the input or
\* of the draft issue none; no step after the await (a failure step
\* included) issues a call.
OneCallPerAction ==
    [][LET issued == BagCardinality(inflight') - BagCardinality(inflight)
           accepted ==
               \/ last' = "handleSubmit" /\ ~IsBlank(todoText)
               \/ last' = "toggleTodo"
               \/ last' = "saveUpdate" /\ ~IsBlank(editText)
               \/ last' = "deleteTodo"
               \/ last' = "fetchTodos"
       IN  /\ accepted => issued = 1 /\ calls' = calls + 1
           /\ ~accepted => issued <= 0 /\ calls' = calls
           /\ last' \in {"updateToDo", "cancelUpdate", "handleUpdateText",
                          "handleInputChange"} => inflight' = inflight
           /\ last' \in FailureLabels => issued = -1]_vars

OneCallPerActionReached ==
    /\ last = "handleSubmit.err"
    /\ BagCardinality(inflight) = 0
    /\ calls = 2
    /\ error = "Failed to create todo"

\* C22: the success step of a toggle, a save or a delete of id X leaves
\* every entry with another id as it was and in the same order; a toggle
\* and a save keep the length of todos and the id at every position; a
\* delete leaves exactly the other entries.
OthersUntouched ==
    [][\A op \in BagToSet(inflight) :
          /\ ( \/ Handles(op, "toggleTodo.ok") /\ op.kind = "toggle"
               \/ Handles(op, "saveUpdate.ok") /\ op.kind = "save" ) =>
                /\ Len(todos') = Len(todos)
                /\ \A j \in DOMAIN todos :
                      /\ todos'[j].id = todos[j].id
                      /\ todos[j].id # op.id => todos'[j] = todos[j]
          /\ (Handles(op, "deleteTodo.ok") /\ op.kind = "delete") =>
                todos' = SelectSeq(todos, LAMBDA t : t.id # op.id)]_vars

OthersUntouchedReached ==
    /\ last = "toggleTodo.ok"
    /\ Len(todos) = 2
    /\ todos[1] = SeedDoc
    /\ todos[2] = [id |-> 2, todo |-> <<"a">>, userId |-> "1",
                   completed |-> TRUE]

\* C23: no two entries of todos have the same id (the store hands out a
\* fresh id with every create and lists no id twice).
IdsAreDistinct ==
    \A j, k \in DOMAIN todos : j # k => todos[j].id # todos[k].id

IdsAreDistinctReached ==
    /\ Len(todos) = 3
    /\ last = "handleSubmit.ok"
    /\ todos[1] = SeedDoc

\* C24: whenever an entry is being edited (the edit id is not none), the
\* edit id is the id of an entry of todos.
EditIdIsInTodos == editingId # NoId => HasId(todos, editingId)

\* C25: when a save succeeds, a draft that is no longer the one the save was
\* triggered with (its trimmed form is not the text sent) is still there
\* after the success step, and so is an edit id that is not the saved id.
SaveKeepsLaterEdit ==
    [][\A op \in BagToSet(inflight) :
          (Handles(op, "saveUpdate.ok") /\ op.kind = "save") =>
              /\ Trim(editText) # op.todo => editText' = editText
              /\ editingId # op.id => editingId' = editingId]_vars

\* C26: the text a save sends is the trimmed draft as it is when the save is
\* triggered; the store writes that text into the document; and the
\* success step merges that same text into the entry of todos, whatever
\* the draft and the edit id are by then.
SaveWritesWhatItMerges ==
    [][/\ (last' = "saveUpdate" /\ inflight' # inflight) =>
            /\ Issued.kind = "save"
            /\ IsTrimOf(Issued.todo, editText)
       /\ \A op \in BagToSet(inflight) :
            /\ ( /\ last' = "updateDocument"
                 /\ op.kind = "save"
                 /\ op.phase = "sent"
                 /\ CopiesIn(op, inflight') < CopiesIn(op, inflight) ) =>
                   /\ \A k \in DOMAIN store' :
                         store'[k].id = op.id => store'[k].todo = op.todo
                   /\ BagIn([op EXCEPT !.phase = "ok"], inflight')
            /\ (Handles(op, "saveUpdate.ok") /\ op.kind = "save") =>
                   \A j \in DOMAIN todos' :
                       todos'[j].id = op.id => todos'[j].todo = op.todo]_vars

\* the save of the draft "b" has succeeded after the draft was changed to
\* " a " (and saved again) while it was in flight
SaveWritesWhatItMergesReached ==
    /\ last = "saveUpdate.ok"
    /\ calls = 3
    /\ todos = <<SeedDoc>>
    /\ store = <<SeedDoc>>
    /\ \E op \in BagToSet(inflight) :
          op.kind = "save" /\ op.todo = <<"a">> /\ op.phase = "sent"

====
